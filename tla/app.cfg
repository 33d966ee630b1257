SPECIFICATION FairSpec
CONSTANTS
    Name = {Status, ContentLength, Location, Big}
    Status = Status
    ContentLength = ContentLength
    Location = Location
    Size <- FieldSize
    Slack = 1
    MaxPayload = 10
    HeadersEndIn = {"stdin_end"}
    MaxAdded = 2
    MaxBody = 5
INVARIANTS
    TypeOK
    ResponseOrdered
    FieldsConserved
    NoFieldStranded
PROPERTIES
    HeadersEndReturns
    ErrorCompletes
CHECK_DEADLOCK FALSE
