SPECIFICATION AdministrationSpec
CONSTANTS
    Registry <- MCRegistry
    Tables <- MCTables
    ComboTables <- MCComboTables
    Environments <- MCEnvironments
    ComboPatches <- MCComboPatches
    Priorities = {0, 2}
    Asked <- MCAsked
    Payloads <- MCPayloads
    Unplaced = Unplaced
    Inputs = 2
    MaxPatches = 2
INVARIANTS
    TellsWhenToRestart
    ListedModelsAreRouted
    RoundTripKeepsRouting
    EmbeddingsAddUp
