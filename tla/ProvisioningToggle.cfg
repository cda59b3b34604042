SPECIFICATION Spec
CONSTANTS
    QueueSize = 2
    Configs = {home, office}
    NoCredentials = NoCredentials
PROPERTY StopMeansStop
