SPECIFICATION FairSpec
PROPERTIES ObjectSettles
