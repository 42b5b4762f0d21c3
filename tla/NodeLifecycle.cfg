SPECIFICATION Spec
CONSTANTS
  RankIds = {0, 1, 2, 3}
  MaxHosts = 3
  MaxPeers = 3
INVARIANT BuildsExactlyRankings
INVARIANT GathersExactly
INVARIANT CrossWired
INVARIANT NoStrayWrite
INVARIANT NothingLeft
INVARIANT RunsOnContract
PROPERTY PoisonIsFinal
