\* One video output and a queue of two runnables: a surface created or destroyed at
\* any moment, a play or a stop of another thread between any two steps.
CONSTANTS
    MaxPosted = 2
    MaxVout = 1
SPECIFICATION Spec
INVARIANTS
    TypeOK
    SurfacesFollowViews
    SurfacesAreAlive
    PostponedPlayKept
    AnswerOnItsWay
PROPERTIES
    
    PostponedPlayStarts
