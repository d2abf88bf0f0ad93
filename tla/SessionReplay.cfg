SPECIFICATION Spec
CONSTANTS
    Requests = {r1, r2}
    Keys = {s1, s2, s3}
    Ephemeral = none
    t1 = t1
    t2 = t2
    t3 = t3
    x1 = x1
    ToolIds = {t1, t2, t3}
    Texts = {x1}
    Limit = 2
    Objects = {o1, o2, o3}
    Limits <- MCLimits
    Questions <- MCQuestions
    Answers <- MCAnswers
    MaxTime = 1
    Worlds <- MCWorlds
INVARIANTS CachesConsistent ReplayOwnConversation
PROPERTIES AnsweredTurnReplayed PoolKeepsLatest
SYMMETRY MCSymmetry
