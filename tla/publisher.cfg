SPECIFICATION PublisherSpec
CONSTANTS
    i1 = i1
    i2 = i2
    i3 = i3
    sutro = sutro
    Main = Main
    NoEntry = NoEntry
    Items <- MCItems
    ExchangeOf <- MCExchanges
    MaxFailures = 3
INVARIANT EndsPublished
CHECK_DEADLOCK FALSE
