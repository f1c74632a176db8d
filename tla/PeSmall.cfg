CONSTANTS
    MaxDword = 15
    DescriptorSize = 2
    MaxDescriptors = 3
    Images <- SmallImages
    Names <- TwoNames
SPECIFICATION Spec
INVARIANTS TypeOK SoundSectionsResolve ReadersAgree NothingUncounted
CHECK_DEADLOCK FALSE
