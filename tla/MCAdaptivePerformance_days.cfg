CONSTANTS
    HostPressureLimit = 1
    HostHealthyLimit = 1
    SevereLimit = 1
    ModerateLimit = 2
    HealthyLimit = 2
    DownCooldown = 2
    UpCooldown = 1
    FallbackLimit = 2
    MaxRestarts = 2
    FirstBitrate = 3000
    Bitrates <- TwoBitrates
    DynamicBitrate = TRUE
    SecondEnabled = TRUE
    ServiceMaximum <- SmallService
    Courses <- Days
SPECIFICATION Spec
INVARIANTS DestinationsFollow
PROPERTIES FallbackIsJustified FallbackComesBack
CHECK_DEADLOCK FALSE
