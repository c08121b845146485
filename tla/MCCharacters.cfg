SPECIFICATION Spec
CONSTANTS
    friend = friend
    dog = dog
    stone = stone
    me = me
    Player = {friend}
    Pet = {dog}
    Item = {stone}
    PcId = me
    NoId = noid
    NULL = null
    Action = {1, 2, 3, 4}
    MAX_CHAROBJ = 3
    MAX_PARTY = 2
    PetLife = 1
ACTION_CONSTRAINT UntilTaken
INVARIANTS PassSound OwnersAlive OneSlotEach NoOrphan WalksWithParty
PROPERTY PetShown
VIEW UpToAddresses
