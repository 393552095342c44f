SPECIFICATION FairSpec
CONSTANTS
    Threads = {t1}
    Owner = owner
    InitPosts = 0
    MaxPosts = 1
    EventfdMax = 1
PROPERTY QuitAlwaysExits
