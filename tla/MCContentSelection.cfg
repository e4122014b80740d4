CONSTANTS
    content1 = content1
    content2 = content2
    seen1 = seen1
    seen2 = seen2
    seen3 = seen3
    target = target
    fields = fields
    v1 = v1
    v2 = v2
    Contents = {content1, content2}
    ObservationIds = {seen1, seen2, seen3}
    Targets = {target}
    Selections = {fields}
    Versions = {v1, v2}
    None = None
    ReceiptIds = {g1}
    ReadTools = {t1}
    Operators = {alice}
    TTL = 1
    MaxTime = 1
    Reads = {c1}
    Requests <- MCRequests
    Observations <- MCObservations
    SurfaceSets <- MCSurfaces
    ContentConfigs <- MCConfigs
    StartAdapters = {}
    Deployments <- OnlyMemory
SPECIFICATION Spec
INVARIANTS
    SelectionIsOptional
