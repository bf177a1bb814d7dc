SPECIFICATION FairSpec
INVARIANTS DownloadedMeansFile DownloadAwaited ThreadJoined
PROPERTIES DownloadEnds
