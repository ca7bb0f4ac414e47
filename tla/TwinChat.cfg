SPECIFICATION Spec
CONSTANTS
    wish = wish
    r1 = r1
    r2 = r2
    t1 = t1
    default = default
    duong = duong
    dung = dung
    Chat = {t1}
    Relayed = {r1, r2, wish}
    Relay = relay
    NoClient = noclient
    NoRoom = noroom
    SessionOf <- MCSessionOf
    EventOf <- MCEventOf
    Answers <- MCAnswers
    Failing = {r1, r2, wish}
    Rooms = {duong, dung}
    Scores = {0, 1, 2}
    MaxTurns = 1
INVARIANTS AnswersOwn SentWhereRead
CHECK_DEADLOCK FALSE
