SPECIFICATION Spec
CONSTANTS
    Name = {Status, ContentLength, Location, Big}
    Status = Status
    ContentLength = ContentLength
    Location = Location
    Size <- FieldSize
    Slack = 1
    MaxPayload = 10
    HeadersEndIn = {"params_complete", "stdin_end"}
    MaxAdded = 2
    MaxBody = 5
INVARIANT
    SingleEmptyLine
CHECK_DEADLOCK FALSE
