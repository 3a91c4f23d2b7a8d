CONSTANTS
    Null = Null
    Ids = {"ob1", "ob2"}
    Currencies = {"USD", "EUR"}
    Regions = {"IN", "EU", "US"}
    Categories = {"pii", "health"}
    Obligations <- MCObligations
    Actions <- MCActions
    MaxObligations = 3
SPECIFICATION Spec
INVARIANT TypeOK
INVARIANT PolicyIsObligations
INVARIANT SourcesExact
PROPERTY NeverLoosens
