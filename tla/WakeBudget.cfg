SPECIFICATION Spec
CONSTANTS
    r1 = r1
    r2 = r2
    Recipient = {r1, r2}
    NoRecipient = NoRecipient
    First = r1
    NoticeLimit = 2
    MaxSeq = 2
    MaxChanges = 1
    MaxFaults = 0
PROPERTY
    BudgetBelongsToHolder
