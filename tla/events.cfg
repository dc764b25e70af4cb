SPECIFICATION Spec
CONSTANTS
    g1 = g1
    Goroutines <- MCGoroutines
    MaxPending = 1
    Stm32Sends <- MCStm32Sends
    Reports <- MCReports
    NoJob = NoJob
    NoValue = NoValue
INVARIANT TypeOK
INVARIANT NoCrossDelivery
INVARIANT BuzzerStatusVouchedFor
