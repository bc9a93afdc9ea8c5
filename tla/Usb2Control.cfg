SPECIFICATION Spec
CONSTANTS
  Mps = 2
  Kinds = {"device", "config_descr", "string", "bad_descr", "get_status", "user_in", "user_stall", "user_empty", "user_out", "set_address", "set_config", "set_config0", "halt", "clear_feature", "user_nodata", "user_5"}
  WLengths = {2, 4, 5}
  AnswerSize <- Sizes
  MaxReq = 3
  MaxLoss = 2
  MaxAbort = 1
  MaxReset = 1
  OutLoss = "inner"
  AbortOut = FALSE
INVARIANT AnswerIsHosts
INVARIANT RequestIsHosts
INVARIANT OutDataHandledOnce
INVARIANT AddressAgrees
PROPERTY EveryTransferEnds
CHECK_DEADLOCK FALSE
