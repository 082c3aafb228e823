SPECIFICATION Spec
CONSTANT Keys = {k1, k2, k3}
INVARIANTS TypeOK AddressKept 
