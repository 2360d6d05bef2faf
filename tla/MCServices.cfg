\* The services and the other parts that stand alone, each with a few calls of the
\* application, changes by others and a lost connection.
SPECIFICATION Spec
CONSTANTS
  User = {u, v}
  LocalUser = me
  OtherUser = {o}
  Me = me
  Other = {o}
  Value = {x}
  MaxCalls = 3
  MaxChanges = 2
  MaxActs = 4
  MaxUserChanges = 1
  MaxDrops = 1
  MaxEdits = 2
  MaxPlays = 2
INVARIANTS
  FollowsSubscribedUsers
  FollowsActivity
  ShowsVersion RegistersItsTree MirrorsEdits EventsTellChanges
  FollowsChat
  ShowsReferences PublishesReferences
PROPERTIES ThrowsOnlyOverOwnEdits
CHECK_DEADLOCK FALSE
