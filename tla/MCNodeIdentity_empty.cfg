\* The instance-id file can be seen empty: getNodeID must then fall back to
\* the metadata service rather than report an empty node id.
CONSTANTS
    w1 = w1
    w2 = w2
    Workers <- MCWorkers
    FileStates <- MCFileStatesAll
    MetaStates <- MCMetaStatesWellFormed
SPECIFICATION Spec
INVARIANT NodeIdNonEmpty
