SPECIFICATION Spec
CONSTANTS
    admin = admin
    bob = bob
    p = p
    q = q
    Names <- TwoNames
    AdminName = admin
    Reqs <- TwoSlots
    MaxId = 3
    MaxTokens = 2
    MaxFaults = 1
SYMMETRY Interchangeable
INVARIANT TypeOK
INVARIANT HeldTokensWork
INVARIANT PasswordsAreOwn
INVARIANT CreatedStands
INVARIANT AdminNameIsAdmins
PROPERTY NothingStartsWhenOver
CHECK_DEADLOCK FALSE
