SPECIFICATION FairSpec
CONSTANTS
    phone = phone
    laptop = laptop
    p1 = p1
    p2 = p2
    l1 = l1
    Members = {"ada", "bayo"}
    Devices = {phone, laptop}
    Tabs = {p1, p2, l1}
    DeviceOf <- MCDeviceOf
    Tokens = {1, 2, 3, 4, 5, 6}
    NoToken = 0
    NoMember = "nobody"
    MaxGlitches = 1
    MaxExpiries = 1
INVARIANTS
    SpentForGood
    AlarmHasACause
    StraysHaveACause
PROPERTY
    SettlesOnOne
