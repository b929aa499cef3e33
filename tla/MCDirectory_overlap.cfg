SPECIFICATION Spec
CONSTANTS
    builder = builder
    buyer = buyer
    anna = anna
    ben = ben
    cora = cora
    chief = chief
    clerk = clerk
    boss = boss
    hall = hall
    machine = machine
    maker = maker
    owner = owner
    n1 = n1
    n2 = n2
    Companies = {builder, buyer}
    Users = {anna, ben, cora}
    Groups = {chief, clerk, boss}
    Factories = {hall}
    Assets = {machine}
    Categories = {maker, owner, other}
    Listed = {maker, owner}
    Names = {n1, n2}
    HomeOf <- Homes
    First <- Installed
    None = None
    Kinds <- AllKinds
    Faults <- FaultKinds
    MaxChanges = 2
INVARIANTS TypeOK   
CHECK_DEADLOCK FALSE
