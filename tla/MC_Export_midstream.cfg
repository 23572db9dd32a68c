SPECIFICATION Spec
INVARIANT NoTruncatedDownload
CHECK_DEADLOCK FALSE
