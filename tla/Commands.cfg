CONSTANTS
  Hosts = {"h", "g"}
  Services = {"s"}
  HostOf <- MCHostOf
  Contacts = {"ann"}
  Hostgroup = {"h"}
  Servicegroup = {"s"}
  ConfOn <- MCConfOn
  ConfFlags <- MCConfFlags
  Unscheduled = {"g"}
  GivenValues = {"check_command", "check_interval", "customs", "first_notification_delay"}
  MaxCommands = 3
  MaxComments = 3
SPECIFICATION Spec
INVARIANT CommandsTell
PROPERTY CommandsLast
CHECK_DEADLOCK FALSE
