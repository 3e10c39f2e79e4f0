SPECIFICATION FairGroup
CONSTANTS
    poller = poller
    versionLog = versionLog
    metricsLog = metricsLog
    server = server
    api = api
    sigint = sigint
    Tasks = {poller, versionLog, metricsLog}
    Servers = {server}
    APIs = {api}
    Signal = sigint
INVARIANTS
    TypeGroup
    GroupStopsWhole
    ChannelOutlivesWorker
PROPERTY
    OneEndsAll
CHECK_DEADLOCK FALSE
