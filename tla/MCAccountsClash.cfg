CONSTANTS
    app = app
    app1 = app1
    nApp = nApp
    nApp1 = nApp1
    nHelper = nHelper
    nHelper1 = nHelper1
    Compartments = {app, app1}
    Uids = {1}
    Names = {nApp, nApp1, nHelper, nHelper1}
    Service <- MCService
    Helper <- MCHelperClash
    MaxStart = 4
    MaxFaults = 0
    NoOne = NoOne
SPECIFICATION Spec
PROPERTIES
    OwnAccountOnly
