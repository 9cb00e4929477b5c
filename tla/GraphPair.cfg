SPECIFICATION Spec
CONSTANTS
    Users = {alice, bob}
    Kinds = {"follow", "close_friend"}
    Clients = {c1, c2}
    CloseFriendCap = 1
    MaxLog = 3
    MaxFriends = 2
SYMMETRY Symmetry
INVARIANTS NoEdgeAcrossBlock FollowsAnnounced NeverUndercounts
PROPERTIES PairLogSpec
