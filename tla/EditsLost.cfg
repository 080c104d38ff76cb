SPECIFICATION Spec

CONSTANTS
    Links = {"usb", "ble"}
    None = None
    Retries = 3
    MaxEbOps = 4
    MaxEbStirs = 0

CHECK_DEADLOCK FALSE

PROPERTIES
    EditsWaitForSync
