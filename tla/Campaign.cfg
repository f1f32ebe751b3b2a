SPECIFICATION Spec
CONSTANT Modes = {"quick", "standard", "full"}
INVARIANT ExitsZeroUnlessCrash
