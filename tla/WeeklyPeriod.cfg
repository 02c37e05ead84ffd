SPECIFICATION ReportSpec
CONSTANTS
    Books <- LongBooks
    Arrivals <- MCArrivals
    Offsets = {0}
    Weeks <- MCWeeks
    Texts <- MCTexts
INVARIANTS
    WeekIsItsPeriod
