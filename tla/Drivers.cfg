SPECIFICATION DriversSpec
CONSTANTS
  i1 = i1
  i2 = i2
  h1 = h1
  i2c0 = i2c0
  spi0 = spi0
  uart0 = uart0
  NULL = NULL
  Irqs <- MCIrqs
  Handlers <- MCHandlers
  I2cs <- MCI2cs
  Spis <- MCSpis
  Uarts <- MCUarts
  MaxCrit = 2
SYMMETRY Symmetry
INVARIANTS IsrFlagExact MaskedInCritical OneTransfer NoneLeftBusy
