SPECIFICATION MonitorSpec
CONSTANTS
  Nodes = {n1, n2, n3}
  First = n1
  NoNode = NoNode
  Weak = {"etcd"}
  Refreshes = {r1, r2}
  MaxChanges = 1
  MaxHangs = 1
INVARIANTS SlotsOfShownLeader VerdictIsTrue
PROPERTY SettlesCurrent
