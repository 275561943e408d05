SPECIFICATION StartupSpec
CONSTANTS
    Invoices = {1, 2}
    Addresses = {1, 2}
    States = {"27", "29"}
    Currencies = {"INR", "USD"}
    LineItems <- TwoInvoices
    OldProfiles <- Profiles
    OldDatabases <- Releases
    Missing = Missing
    Malformed = Malformed
    None = None
INVARIANT TreatmentIsCurrent
PROPERTY TaxFollowsTheInvoice
INVARIANT SchemaIsComplete
INVARIANT StartsFindTheirTables
PROPERTY ImplementsGstTax
