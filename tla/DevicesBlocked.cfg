SPECIFICATION Spec
CONSTANTS
  MAX_DRIVERS = 3
  MAX_DEVICES = 3
  uart = uart
  i2c = i2c
  spi = spi
  ext = ext
  d1 = d1
  d2 = d2
  d3 = d3
  d4 = d4
  UART = uart
  I2C = i2c
  SPI = spi
  DriverNames <- MCDriverNames
  DeviceNames <- MCDeviceNames
  AppDrivers <- MCAppDrivers
  Wanted <- MCWanted
  InitPriorities <- MCOrdinary
  LOWEST = 255
SYMMETRY Symmetry
INVARIANTS EveryDeviceIsTried
