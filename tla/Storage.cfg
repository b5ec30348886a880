SPECIFICATION Spec
CONSTANTS
    Parts = {"cache", "partfs", "fat32", "ext2"}
    MayStop = {"partfs"}
    n1 = n1  n2 = n2  n3 = n3
    Nobody = Nobody
PROPERTIES IsBlockDevice TransfersProper FatDirectories FatReadIsFile Ext2Answers
