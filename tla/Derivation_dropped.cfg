CONSTANTS
    Null = Null
    Ids = {"ob1", "ob2"}
    Currencies = {"USD", "EUR"}
    Regions = {"IN", "EU", "US"}
    Categories = {"pii", "health"}
    Obligations <- MCBinding
    Actions <- MCActions
    MaxObligations = 2
SPECIFICATION Spec
INVARIANT RecognizedConstrains
