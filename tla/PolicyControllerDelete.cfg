SPECIFICATION ControllerSpec
CONSTANTS
  Specs = {two, four, connected}
  Unsupported = {connected}
  NoDRA = NoDRA
  Nobody = Nobody
  MaxChanges = 4
PROPERTY DeletesOnlyOwn
