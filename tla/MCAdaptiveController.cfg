CONSTANTS
    HostPressureLimit = 3
    HostHealthyLimit = 5
    SevereLimit = 2
    ModerateLimit = 3
    HealthyLimit = 10
    DownCooldown = 4
    UpCooldown = 5
    Ranges <- ShortRanges
    MaxResets = 1
SPECIFICATION ControllerSpec
PROPERTIES ChangesAreSpaced Recovers HostIsAnswered
