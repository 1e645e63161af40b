SPECIFICATION FairSpec
CONSTANTS
  State = State
  Absent = Absent
  k1 = k1
  k2 = k2
  Kubeconfigs <- OneKubeconfig
  MaxWrites = 1
PROPERTY KubeconfigsAreFollowed
CHECK_DEADLOCK FALSE
