CONSTANT NumCpus = 2
SPECIFICATION IpiFairSpec
PROPERTY RebootStops
CHECK_DEADLOCK FALSE
