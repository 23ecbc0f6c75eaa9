SPECIFICATION Spec
CONSTANTS
    Programs = {A, B}
    NoProgram = NoProgram
    Descriptions = {d1, d2}
    Reverted = Reverted
SYMMETRY Symmetry
INVARIANTS TypeOK BatchesFit StepwiseDeploysOnly DeployedByAgent StartedDeployed
PROPERTIES NoSecondMint
