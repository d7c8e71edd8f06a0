CONSTANTS
    RPCs = {"PriceTable", "AccountBalance", "FundAccount", "ReadRegistry", "UpdateRegistry"}
    Payments = {"contract", "account"}
SPECIFICATION Spec
INVARIANT HostInSync
