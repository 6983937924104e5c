CONSTANTS
    pad = pad
    stick = stick
    twin = twin
    NoDev = none
    Devs <- MCDevs
    Id <- MCId
    Btns <- MCBtns
    Attachments <- MCAttachments
    MaxDev = 2
    MaxFaults = 1
SPECIFICATION Spec
PROPERTY SelectReportsFailure
