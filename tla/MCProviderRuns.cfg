\* An asset beside a world, and sounds, with one fault.
SPECIFICATION FairSpec

CONSTANTS
    asset = asset
    sounds = sounds
    world = world
    image = image
    mesh = mesh
    sound = sound
    trimmed = trimmed
    Generations <- GenerationsMC
    Plan <- PlanMC
    Together <- TogetherMC
    Files = {image, mesh, sound, trimmed}
    Images <- ImagesMC
    Processed = trimmed
    Results <- ResultsMC
    MaxFaults = 1

INVARIANTS
    CompletedIsDelivered
    AnswerIsStored
    ModelFromReference

PROPERTIES
    RunsEnd
    WorkSpec

CHECK_DEADLOCK FALSE
