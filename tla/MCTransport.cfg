CONSTANTS
    RPCs = {"PriceTable", "AccountBalance", "FundAccount", "ReadRegistry", "UpdateRegistry"}
    Payments = {"contract", "account"}
SPECIFICATION Spec
INVARIANTS TypeOK RenterInSync OkOnlyIfServed
PROPERTY StreamsEnd
