SPECIFICATION Spec
CONSTANTS
  Mps = 2
  Kinds = {"device", "config_descr", "bos", "string", "user_in", "get_status", "get_config", "get_interface", "bad_descr", "bad_in", "bad_out", "user_stall", "user_null", "set_sel", "user_out", "set_address", "set_config", "set_config0", "no_effect", "isoch_delay", "user_nodata", "user_5"}
  WLengths = {1, 2, 4, 6}
  Unset = {"bos"}
  AnswerSize <- Sizes
  MaxReq = 3
  MaxAbort = 2
  MaxReset = 1
  AbortLong = FALSE
INVARIANT AnswerIsHosts
INVARIANT RefusedIsStalled
INVARIANT AddressAgrees
PROPERTY EveryTransferEnds
CHECK_DEADLOCK FALSE
