SPECIFICATION Spec
CONSTANT Streams <- MCStreams
INVARIANT CutsDoNotMatter
CHECK_DEADLOCK FALSE
