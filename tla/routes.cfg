SPECIFICATION RoutesSpec
CONSTANTS
    Name = {Status, ContentLength, Location}
    Status = Status
    ContentLength = ContentLength
    Location = Location
    Size <- FieldSize
    Slack = 1
    MaxPayload = 30
    HeadersEndIn = {"stdin_end"}
    MaxAdded = 3
    MaxBody = 5
    Segment = {"a", "b"}
    Tables <- TwoEndpoints
    Requests <- SomeRequests
    Selectors = {"exact", "script_name", "path_info"}
INVARIANTS
    RoutesTypeOK
    RoutedRight
    MissingIsOver
PROPERTY
    ImplementsApp
CHECK_DEADLOCK FALSE
