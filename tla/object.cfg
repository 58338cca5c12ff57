\* One object of either class, its setters in any order, messages from others.
SPECIFICATION Spec
CONSTANTS
    empty = empty
    spaces = spaces
    upper = upper
    lower = lower
    dashes = dashes
    Text <- MCText
    Blank = empty
    Transform <- MCTransform
    Dashes = dashes
    Degree <- MCDegree
    MaxLatitude = 2
    HalfTurn = 3
    NaN = NaN
    Unset = Unset
    Time = {0, 1, 2}
    Moment <- MCMoment
    Second = 10
    Inbox <- MCInbox
    Table <- MCTable
INVARIANTS TypeOK ReadBack Delivered ResendStable
