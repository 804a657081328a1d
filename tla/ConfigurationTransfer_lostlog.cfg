SPECIFICATION Spec
CONSTANTS
    Data = {d0, d1}
    Initial = d0
    Torn = Torn
    NoFile = NoFile
    MaxSchema = 1
    MaxFaults = 1
    Faulty = {"replace_log"}
INVARIANT ConfigurationWhole
