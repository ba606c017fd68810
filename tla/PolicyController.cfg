SPECIFICATION FairControllerSpec
CONSTANTS
  Specs = {two, four, connected}
  Unsupported = {connected}
  NoDRA = NoDRA
  Nobody = Nobody
  MaxChanges = 4
INVARIANT PolicyControllerType
PROPERTIES ForeignTemplatesKept TemplateSettles
