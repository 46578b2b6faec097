CONSTANTS
    p1 = p1
    p2 = p2
    c1 = c1
    c2 = c2
    Empty = Empty
    Producers <- MCProducers
    Consumers <- MCConsumers
    Capacity = 2
    Slack = 1
    MaxSends = 2
SPECIFICATION FairSpec
INVARIANTS RegistrationsBalance NoItemForgotten NoRoomForgotten
PROPERTIES ImplementsQueue EndDrains
