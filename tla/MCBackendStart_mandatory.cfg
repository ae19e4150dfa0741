SPECIFICATION BackendSpec
CONSTANTS
    igpu = igpu
    dgpu = dgpu
    usb = usb
    CardList <- MCCardList
    Panels <- MCPanels
    BootVga = {dgpu}
    Evdi = {usb}
    DeviceLists <- MCDeviceLists
    RequestLists <- MCRequests
    AnlandEnvs = {FALSE}
    MaxUdev = 1
INVARIANTS
    MandatoryIsThere
