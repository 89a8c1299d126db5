SPECIFICATION Spec
CONSTANTS
    home = home
    cafe = cafe
    m1 = m1
    m2 = m2
    Nets = {home, cafe}
    NoNet = NoNet
    MACs = {m1, m2}
    NoMAC = NoMAC
    macsOf <- SharedAddress
    Static = FALSE
PROPERTY
    NoForeignPin
