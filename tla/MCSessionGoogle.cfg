\* Two overlapping sign-ins against the assertion of google_service.dart.
CONSTANTS
  Accounts = {a, b}
  None = None
  Checks = {1}
  MaxLogins = 2
SPECIFICATION Spec
PROPERTIES
  GoogleUserIsCurrent
CHECK_DEADLOCK FALSE
