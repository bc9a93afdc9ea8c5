SPECIFICATION Spec
CONSTANTS
  Usb2Speed = "HIGHSPEED"
  Masks <- MCMasks
  Oversize <- MCOversize
  MaxReset = 1
  MaxPending = 2
CONSTRAINT NotCrossed
INVARIANT LinkIsFollowed
INVARIANT BanksAreOwned
PROPERTY Usb3ComesUp
PROPERTY Usb2Enumerates
